---- MODULE Spec2Model ----
(***************************************************************************)
(* Model of github.com/kurt212/syncgroup (src/syncgroup.go).               *)
(*                                                                         *)
(* One SyncGroup is shared by two caller goroutines.  Both issue Go and    *)
(* TryGo calls, in any order and concurrently; the owner also issues       *)
(* SetLimit and Wait calls, at any time.  A call is split at the points    *)
(* where the Go runtime can interleave another goroutine with it: between  *)
(* two operations on shared state (an atomic, the Once, the WaitGroup, a   *)
(* channel).  The goroutines spawned by Go and TryGo and the listener      *)
(* goroutine are processes of their own.                                   *)
(*                                                                         *)
(* Unbuffered channels (errorChan, finishedChan) are rendezvous: a send    *)
(* and the matching receive are one joint step.  The semaphore is a        *)
(* buffered channel of capacity limit whose tokens are indistinguishable:  *)
(* it is its capacity and its length.                                      *)
(***************************************************************************)
EXTENDS Integers, Sequences, FiniteSets, TLC

\* ---- bounds ------------------------------------------------------------
MaxTasks == 2
MaxLimit == 1

\* The goroutines that use the group.  The owner made it: it alone
\* configures it (SetLimit) and joins it (Wait).  Both submit, concurrently.
Owner == "owner"
Callers == {Owner, "peer"}

\* What the function handed to Go/TryGo does: return nil, return an error,
\* panic.
Kinds == {"ok", "err", "panic"}

\* What a function panics with: an error value, or any other value.
Payloads == {"error", "value"}

VARIABLES
    semCap,            \* cap(g.semaphore); 0 stands for g.semaphore == nil
    semLen,            \* len(g.semaphore): tokens in the buffered channel
    wg,                \* counter of g.wg
    listeningStarted,  \* g.listeningStarted, set inside the Once
    errClosed,         \* g.errorChan has been closed
    finClosed,         \* g.finishedChan has been closed
    listener,          \* position of the listenToErrors goroutine
    acc,               \* accumulatedErrors of listenToErrors
    tasks,             \* the goroutines spawned by Go/TryGo, in spawn order
    pc,                \* position of every caller inside its current call
    res,               \* what a caller's last returned Wait returned
    crashed,           \* an unrecovered panic in a spawned goroutine
    clean,             \* history: no Go/TryGo call overlapped the owner's Wait
    hist               \* history: Go was used; collectors started; a
                       \* SetLimit panicked; the limit was unset and no
                       \* function has ended since

vars == <<semCap, semLen, wg, listeningStarted, errClosed, finClosed,
          listener, acc, tasks, pc, res, crashed, clean, hist>>

\* Positions of a caller inside Go and TryGo.  At those of SubmitPcs the call
\* will spawn a goroutine.
SubmitPcs == {"go_add", "trygo_start", "trygo_add"}
CallPcs == SubmitPcs \cup {"trygo_false"}
WaitPcs == {"wait_wg", "wait_close", "wait_recv"}

\* The value of "no error" (a nil error, a nil Wait result).
Nil == [nil |-> TRUE]

\* No Wait of the caller has returned yet.
NoResult == [nil |-> TRUE, none |-> TRUE]

\* ---- error values ------------------------------------------------------
\* var ErrPanicRecovered (line 22): the sentinel error.  What errors.Is can
\* match in an error is a set of identities, each a pair; the sentinel's
\* is this one, that of the error value of task t is <<"task", t>>.
ErrPanicRecovered == <<"ErrPanicRecovered", 0>>

\* The error value a task's function returns, or panics with when it panics
\* with an error.  Every task has an error value of its own.
TaskError(t) == [nil |-> FALSE, task |-> t, is |-> {<<"task", t>>}, stack |-> FALSE]

\* done formatting every payload with %v: an error payload is not wrapped.
PanicError_Unwrapped(t, payload) ==
    [nil |-> FALSE, task |-> t, is |-> {ErrPanicRecovered}, stack |-> TRUE]

\* done(): fmt.Errorf("%w: %w\n%s", ErrPanicRecovered, val, debug.Stack())
\* for an error payload, "%w: %v\n%s" for any other payload.  errors.Is
\* matches every %w operand.
PanicError(t, payload) ==
    [nil |-> FALSE, task |-> t,
     is |-> IF payload = "error" THEN {ErrPanicRecovered, <<"task", t>>}
                                 ELSE {ErrPanicRecovered},
     stack |-> TRUE]

\* errors.Join: nil operands are dropped; nil when nothing is left.
Join(errs) ==
    LET nonNil == SelectSeq(errs, LAMBDA e : ~e.nil)
    IN IF Len(nonNil) = 0 THEN Nil ELSE [nil |-> FALSE, errs |-> nonNil]

\* Wait wrapping whatever was delivered, without the test for no errors.
WaitResult_NoNilCheck(errs) == [nil |-> FALSE, errs |-> errs]

\* Wait, lines 166-172: the result computed from the delivered slice.
WaitResult(errs) == IF Len(errs) = 0 THEN Nil ELSE Join(errs)

\* ---- initial state: New() ----------------------------------------------
Init ==
    /\ semCap = 0
    /\ semLen = 0
    /\ wg = 0
    /\ listeningStarted = FALSE
    /\ errClosed = FALSE
    /\ finClosed = FALSE
    /\ listener = "none"
    /\ acc = <<>>
    /\ tasks = <<>>
    /\ pc = [c \in Callers |-> "idle"]
    /\ res = [c \in Callers |-> NoResult]
    /\ crashed = FALSE
    /\ clean = FALSE
    /\ hist = [goUsed |-> FALSE, collectors |-> 0, limitPanicked |-> FALSE, unset |-> FALSE]

\* Calls in progress, those made by tasks included, plus goroutines spawned:
\* bounds the submissions.
Submitted ==
    Len(tasks) + Cardinality({c \in Callers : pc[c] \in SubmitPcs})
               + Cardinality({t \in 1..Len(tasks) : tasks[t].pc = "nest_add"})

\* No caller is inside Go or TryGo.
NoCallInProgress == \A d \in Callers : pc[d] \notin CallPcs

\* A Go/TryGo call begins: it overlaps the owner's Wait when one is in
\* progress.  After Wait has returned, clean tells of that Wait.
Overlap == clean /\ pc[Owner] \notin WaitPcs

\* ---- startListening ----------------------------------------------------
\* startListening without the Once: every caller starts a listener.
StartListeningFirst_NoOnce == TRUE

\* startListening starting a listener again once the first one has ended.
StartListeningFirst_AfterEnd == ~listeningStarted \/ listener = "done"

\* sync.Once: the first caller stores the flag and starts the listener;
\* every later caller finds the Once done.  Do is atomic for its callers.
StartListeningFirst == ~listeningStarted

\* ---- Go ----------------------------------------------------------------
\* Go, line 66: g.startListening()
GoCall(c) ==
    /\ ~crashed
    /\ pc[c] = "idle"
    /\ Submitted < MaxTasks
    /\ pc' = [pc EXCEPT ![c] = "go_add"]
    /\ IF StartListeningFirst
         THEN /\ listeningStarted' = TRUE
              /\ listener' = "recv"
              /\ hist' = [hist EXCEPT !.goUsed = TRUE, !.collectors = @ + 1]
         ELSE /\ UNCHANGED <<listeningStarted, listener>>
              /\ hist' = [hist EXCEPT !.goUsed = TRUE]
    /\ clean' = Overlap
    /\ UNCHANGED <<semCap, semLen, wg, errClosed, finClosed, acc, tasks, res, crashed>>

\* Go as a call that takes the slot itself, waiting for one, before it
\* returns.
GoSpawn_TakesSlot(c, k) ==
    /\ ~crashed
    /\ pc[c] = "go_add"
    /\ semCap = 0 \/ semLen < semCap
    /\ semLen' = IF semCap > 0 THEN semLen + 1 ELSE semLen
    /\ wg' = wg + 1
    /\ tasks' = Append(tasks, [kind |-> k, pc |-> "run"])
    /\ pc' = [pc EXCEPT ![c] = "idle"]
    /\ UNCHANGED <<semCap, listeningStarted, errClosed, finClosed,
                   listener, acc, res, crashed, clean, hist>>

\* Go, lines 68-83: g.wg.Add(1); go func() {...}(); return
\* k is what fnc, the argument of the call, will do.
GoSpawn(c, k) ==
    /\ ~crashed
    /\ pc[c] = "go_add"
    /\ wg' = wg + 1
    /\ tasks' = Append(tasks, [kind |-> k, pc |-> "acquire"])
    /\ pc' = [pc EXCEPT ![c] = "idle"]
    /\ UNCHANGED <<semCap, semLen, listeningStarted, errClosed, finClosed,
                   listener, acc, res, crashed, clean, hist>>

\* ---- TryGo -------------------------------------------------------------
\* The select admitting one task more than the capacity.
TryAcquire_OffByOne == semCap = 0 \/ semLen <= semCap

\* The select without the nil test: a send on a nil channel is never ready.
TryAcquire_NilBlocks == semCap > 0 /\ semLen < semCap

\* TryGo, lines 86-92: the select on the semaphore, with its default case.
TryAcquire == semCap = 0 \/ semLen < semCap

\* TryGo counting the task before it knows that it is admitted.
TryGoCall_CountsFirst(c) ==
    /\ ~crashed
    /\ pc[c] = "idle"
    /\ wg' = wg + 1
    /\ IF semCap = 0 \/ semLen < semCap
         THEN /\ Submitted < MaxTasks
              /\ semLen' = IF semCap > 0 THEN semLen + 1 ELSE semLen
              /\ pc' = [pc EXCEPT ![c] = "trygo_start"]
         ELSE /\ pc' = [pc EXCEPT ![c] = "trygo_false"]
              /\ UNCHANGED semLen
    /\ clean' = Overlap
    /\ UNCHANGED <<semCap, listeningStarted, errClosed, finClosed, listener,
                   acc, tasks, res, crashed, hist>>

\* TryGo testing for a free slot without taking it.
TryGoCall_ChecksOnly(c) ==
    /\ ~crashed
    /\ pc[c] = "idle"
    /\ IF TryAcquire
         THEN /\ Submitted < MaxTasks
              /\ pc' = [pc EXCEPT ![c] = "trygo_start"]
         ELSE /\ pc' = [pc EXCEPT ![c] = "trygo_false"]
    /\ clean' = Overlap
    /\ UNCHANGED <<semCap, semLen, wg, listeningStarted, errClosed, finClosed,
                   listener, acc, tasks, res, crashed, hist>>

\* TryGo, lines 86-92: the select sends the token or takes the default case.
TryGoCall(c) ==
    /\ ~crashed
    /\ pc[c] = "idle"
    /\ IF TryAcquire
         THEN /\ Submitted < MaxTasks
              /\ semLen' = IF semCap > 0 THEN semLen + 1 ELSE semLen
              /\ pc' = [pc EXCEPT ![c] = "trygo_start"]
         ELSE /\ pc' = [pc EXCEPT ![c] = "trygo_false"]
              /\ UNCHANGED semLen
    /\ clean' = Overlap
    /\ UNCHANGED <<semCap, wg, listeningStarted, errClosed, finClosed, listener,
                   acc, tasks, res, crashed, hist>>

\* TryGo, line 90: return false
TryGoReject(c) ==
    /\ ~crashed
    /\ pc[c] = "trygo_false"
    /\ pc' = [pc EXCEPT ![c] = "idle"]
    /\ UNCHANGED <<semCap, semLen, wg, listeningStarted, errClosed, finClosed,
                   listener, acc, tasks, res, crashed, clean, hist>>

\* TryGo, line 94: g.startListening()
TryGoStart(c) ==
    /\ ~crashed
    /\ pc[c] = "trygo_start"
    /\ pc' = [pc EXCEPT ![c] = "trygo_add"]
    /\ IF StartListeningFirst
         THEN /\ listeningStarted' = TRUE
              /\ listener' = "recv"
              /\ hist' = [hist EXCEPT !.collectors = @ + 1]
         ELSE UNCHANGED <<listeningStarted, listener, hist>>
    /\ UNCHANGED <<semCap, semLen, wg, errClosed, finClosed, acc, tasks,
                   res, crashed, clean>>

\* TryGo, lines 95-106: g.wg.Add(1); go func() {...}(); return true
\* k is what fnc, the argument of the call, will do.
TryGoSpawn(c, k) ==
    /\ ~crashed
    /\ pc[c] = "trygo_add"
    /\ wg' = wg + 1
    /\ tasks' = Append(tasks, [kind |-> k, pc |-> "run"])
    /\ pc' = [pc EXCEPT ![c] = "idle"]
    /\ UNCHANGED <<semCap, semLen, listeningStarted, errClosed, finClosed,
                   listener, acc, res, crashed, clean, hist>>

\* ---- the spawned goroutine ----------------------------------------------
TaskIds == 1..Len(tasks)

SetTaskPc(t, p) == [tasks EXCEPT ![t].pc = p]

\* The goroutine not waiting for a slot.
SlotFree_Unbounded == TRUE

\* Go, lines 74-76: the blocking send of a token, skipped without a limit.
SlotFree == semCap = 0 \/ semLen < semCap

\* The goroutine going on to fnc without sending its token.
TaskAcquire_NoToken(t) ==
    /\ ~crashed
    /\ tasks[t].pc = "acquire"
    /\ SlotFree
    /\ tasks' = SetTaskPc(t, "run")
    /\ UNCHANGED <<semCap, semLen, wg, listeningStarted, errClosed, finClosed,
                   listener, acc, pc, res, crashed, clean, hist>>

\* Go, lines 73-76: the goroutine takes its slot.
TaskAcquire(t) ==
    /\ ~crashed
    /\ tasks[t].pc = "acquire"
    /\ SlotFree
    /\ semLen' = IF semCap > 0 THEN semLen + 1 ELSE semLen
    /\ tasks' = SetTaskPc(t, "run")
    /\ UNCHANGED <<semCap, wg, listeningStarted, errClosed, finClosed, listener,
                   acc, pc, res, crashed, clean, hist>>

\* done without the recover: the panic of fnc is not reported.
AfterFnc_PanicLost(kind) ==
    CASE kind = "err" -> "send"
      [] OTHER -> "release"

\* Where the goroutine continues once fnc has ended: a returned error is
\* sent from the goroutine's body (lines 78-81, 100-103), a panic unwinds
\* into the deferred done, which sends the wrapped payload (lines 112-123),
\* and a nil return goes straight to the rest of done.
AfterFnc(kind) ==
    CASE kind = "ok" -> "release"
      [] kind = "err" -> "send"
      [] OTHER -> "psend"

\* The goroutine cancelled once a failure has been reported: it goes to
\* its cleanup without calling fnc.
TaskRun_Cancelled(t) ==
    /\ ~crashed
    /\ tasks[t].pc = "run"
    /\ tasks' = SetTaskPc(t, IF acc # <<>> THEN "release" ELSE AfterFnc(tasks[t].kind))
    /\ hist' = [hist EXCEPT !.unset = FALSE]
    /\ UNCHANGED <<semCap, semLen, wg, listeningStarted, errClosed, finClosed,
                   listener, acc, pc, res, crashed, clean>>

\* The goroutine decrementing the counter as soon as fnc has ended, before
\* it reports.
TaskRun_DoneFirst(t) ==
    /\ ~crashed
    /\ tasks[t].pc = "run"
    /\ tasks' = SetTaskPc(t, AfterFnc(tasks[t].kind))
    /\ wg' = wg - 1
    /\ hist' = [hist EXCEPT !.unset = FALSE]
    /\ UNCHANGED <<semCap, semLen, listeningStarted, errClosed, finClosed,
                   listener, acc, pc, res, crashed, clean>>

\* fnc() runs to its end.
TaskRun(t) ==
    /\ ~crashed
    /\ tasks[t].pc = "run"
    /\ tasks' = SetTaskPc(t, AfterFnc(tasks[t].kind))
    /\ hist' = [hist EXCEPT !.unset = FALSE]
    /\ UNCHANGED <<semCap, semLen, wg, listeningStarted, errClosed, finClosed,
                   listener, acc, pc, res, crashed, clean>>

\* The value the goroutine sends on errorChan: what fnc returned, or what
\* done made of the recovered payload.
Report(t, payload) ==
    IF tasks[t].pc = "send" THEN TaskError(t) ELSE PanicError(t, payload)

\* The listener receiving the first error only and never again.
TaskSend_FirstOnly(t, payload) ==
    /\ ~crashed
    /\ tasks[t].pc \in {"send", "psend"}
    /\ tasks[t].pc = "send" => payload = "error"
    /\ IF errClosed
         THEN /\ crashed' = TRUE
              /\ UNCHANGED <<acc, tasks>>
         ELSE /\ listener = "recv" /\ acc = <<>>
              /\ acc' = Append(acc, Report(t, payload))
              /\ tasks' = SetTaskPc(t, "release")
              /\ UNCHANGED crashed
    /\ UNCHANGED <<semCap, semLen, wg, listeningStarted, errClosed, finClosed,
                   listener, pc, res, clean, hist>>

\* The listener putting what it receives in front of what it holds.
TaskSend_Prepends(t, payload) ==
    /\ ~crashed
    /\ tasks[t].pc \in {"send", "psend"}
    /\ tasks[t].pc = "send" => payload = "error"
    /\ IF errClosed
         THEN /\ crashed' = TRUE
              /\ UNCHANGED <<acc, tasks>>
         ELSE /\ listener = "recv"
              /\ acc' = <<Report(t, payload)>> \o acc
              /\ tasks' = SetTaskPc(t, "release")
              /\ UNCHANGED crashed
    /\ UNCHANGED <<semCap, semLen, wg, listeningStarted, errClosed, finClosed,
                   listener, pc, res, clean, hist>>

\* ---- Go called by a task on its own group --------------------------------
\* fnc of task t calls g.Go: line 66, g.startListening(), which finds the
\* Once done, the listener having been started before any task was spawned.
TaskGoCall(t) ==
    /\ ~crashed
    /\ tasks[t].pc = "run"
    /\ Submitted < MaxTasks
    /\ tasks' = SetTaskPc(t, "nest_add")
    /\ IF StartListeningFirst
         THEN /\ listeningStarted' = TRUE
              /\ listener' = "recv"
              /\ hist' = [hist EXCEPT !.goUsed = TRUE, !.collectors = @ + 1]
         ELSE /\ UNCHANGED <<listeningStarted, listener>>
              /\ hist' = [hist EXCEPT !.goUsed = TRUE]
    /\ UNCHANGED <<semCap, semLen, wg, errClosed, finClosed, acc, pc, res,
                   crashed, clean>>

\* A nested Go that takes the slot before it returns.
TaskGoSpawn_TakesSlot(t, k) ==
    /\ ~crashed
    /\ tasks[t].pc = "nest_add"
    /\ semCap = 0 \/ semLen < semCap
    /\ wg' = wg + 1
    /\ semLen' = IF semCap = 0 THEN semLen ELSE semLen + 1
    /\ tasks' = Append(SetTaskPc(t, "run"),
                       [kind |-> k, pc |-> "run", parent |-> t])
    /\ UNCHANGED <<semCap, listeningStarted, errClosed, finClosed, listener,
                   acc, pc, res, crashed, clean, hist>>

\* Go, lines 68-83, in that call: g.wg.Add(1); go func() {...}(); return.
\* fnc of task t goes on; the goroutine spawned remembers who spawned it.
TaskGoSpawn(t, k) ==
    /\ ~crashed
    /\ tasks[t].pc = "nest_add"
    /\ wg' = wg + 1
    /\ tasks' = Append(SetTaskPc(t, "run"),
                       [kind |-> k, pc |-> "acquire", parent |-> t])
    /\ UNCHANGED <<semCap, semLen, listeningStarted, errClosed, finClosed,
                   listener, acc, pc, res, crashed, clean, hist>>

\* g.errorChan <- err (lines 80, 102, 122): a rendezvous with the receive of
\* listenToErrors (lines 146-148).  On a closed channel the send panics; in
\* the goroutine's body the panic unwinds into done, whose own send panics
\* again, in done nobody recovers: either way the process dies.
TaskSend(t, payload) ==
    /\ ~crashed
    /\ tasks[t].pc \in {"send", "psend"}
    /\ tasks[t].pc = "send" => payload = "error"
    /\ IF errClosed
         THEN /\ crashed' = TRUE
              /\ UNCHANGED <<acc, tasks>>
         ELSE /\ listener = "recv"
              /\ acc' = Append(acc, Report(t, payload))
              /\ tasks' = SetTaskPc(t, "release")
              /\ UNCHANGED crashed
    /\ UNCHANGED <<semCap, semLen, wg, listeningStarted, errClosed, finClosed,
                   listener, pc, res, clean, hist>>

\* done without the receive from the semaphore: the slot is never given back.
TaskRelease_Leak(t) ==
    /\ ~crashed
    /\ tasks[t].pc = "release"
    /\ tasks' = [tasks EXCEPT ![t].pc = "wgdone"]
    /\ UNCHANGED <<semCap, semLen, wg, listeningStarted, errClosed, finClosed,
                   listener, acc, pc, res, crashed, clean, hist>>

\* done calling wg.Done first: the slot is still held when the counter drops.
TaskRelease_DoneFirst(t) ==
    /\ ~crashed
    /\ tasks[t].pc = "release"
    /\ wg' = wg - 1
    /\ tasks' = SetTaskPc(t, "wgdone")
    /\ UNCHANGED <<semCap, semLen, listeningStarted, errClosed, finClosed,
                   listener, acc, pc, res, crashed, clean, hist>>

\* done, lines 125-127: <-g.semaphore, skipped without a limit.
TaskRelease(t) ==
    /\ ~crashed
    /\ tasks[t].pc = "release"
    /\ semCap > 0 => semLen > 0
    /\ semLen' = IF semCap > 0 THEN semLen - 1 ELSE semLen
    /\ tasks' = SetTaskPc(t, "wgdone")
    /\ UNCHANGED <<semCap, wg, listeningStarted, errClosed, finClosed, listener,
                   acc, pc, res, crashed, clean, hist>>

\* wg.Done called after fnc instead of deferred: a panic passes it by.
TaskWgDone_SkippedOnPanic(t) ==
    /\ ~crashed
    /\ tasks[t].pc = "wgdone"
    /\ wg' = IF tasks[t].kind = "panic" THEN wg ELSE wg - 1
    /\ tasks' = SetTaskPc(t, "finished")
    /\ UNCHANGED <<semCap, semLen, listeningStarted, errClosed, finClosed,
                   listener, acc, pc, res, crashed, clean, hist>>

\* done, line 129: g.wg.Done()
TaskWgDone(t) ==
    /\ ~crashed
    /\ tasks[t].pc = "wgdone"
    /\ wg' = wg - 1
    /\ tasks' = SetTaskPc(t, "finished")
    /\ UNCHANGED <<semCap, semLen, listeningStarted, errClosed, finClosed,
                   listener, acc, pc, res, crashed, clean, hist>>

\* ---- listenToErrors ----------------------------------------------------
\* line 146: the range loop ends when errorChan is closed.
ListenerEnd ==
    /\ ~crashed
    /\ listener = "recv"
    /\ errClosed
    /\ listener' = "send"
    /\ UNCHANGED <<semCap, semLen, wg, listeningStarted, errClosed, finClosed,
                   acc, tasks, pc, res, crashed, clean, hist>>

\* The listener going back to deliver again instead of ending.
ListenerClose_Redelivers ==
    /\ ~crashed
    /\ listener = "closing"
    /\ listener' = "send"
    /\ UNCHANGED <<semCap, semLen, wg, listeningStarted, errClosed, finClosed,
                   acc, tasks, pc, res, crashed, clean, hist>>

\* lines 141-143: the deferred close(g.finishedChan), after the delivery.
ListenerClose ==
    /\ ~crashed
    /\ listener = "closing"
    /\ finClosed' = TRUE
    /\ listener' = "done"
    /\ UNCHANGED <<semCap, semLen, wg, listeningStarted, errClosed, acc, tasks,
                   pc, res, crashed, clean, hist>>

\* ---- Wait --------------------------------------------------------------
Return(c, r) ==
    /\ pc' = [pc EXCEPT ![c] = "idle"]
    /\ res' = [res EXCEPT ![c] = r]

\* Wait without the short circuit (as before listeningStarted was tested).
WaitCall_NoShortCircuit(c) ==
    /\ ~crashed
    /\ pc[c] = "idle"
    /\ pc' = [pc EXCEPT ![c] = "wait_wg"]
    /\ clean' = NoCallInProgress
    /\ UNCHANGED <<semCap, semLen, wg, listeningStarted, errClosed, finClosed,
                   listener, acc, tasks, res, crashed, hist>>

\* Wait marking the group as started when it finds it idle.
WaitCall_MarksStarted(c) ==
    /\ ~crashed
    /\ pc[c] = "idle"
    /\ IF ~listeningStarted
         THEN /\ Return(c, Nil)
              /\ listeningStarted' = TRUE
         ELSE /\ pc' = [pc EXCEPT ![c] = "wait_wg"]
              /\ UNCHANGED <<res, listeningStarted>>
    /\ clean' = NoCallInProgress
    /\ UNCHANGED <<semCap, semLen, wg, errClosed, finClosed,
                   listener, acc, tasks, crashed, hist>>

\* Wait, lines 159-161: the short circuit on a group nothing was started on.
WaitCall(c) ==
    /\ ~crashed
    /\ pc[c] = "idle"
    /\ IF ~listeningStarted
         THEN Return(c, Nil)
         ELSE /\ pc' = [pc EXCEPT ![c] = "wait_wg"]
              /\ UNCHANGED res
    /\ clean' = NoCallInProgress
    /\ UNCHANGED <<semCap, semLen, wg, listeningStarted, errClosed, finClosed,
                   listener, acc, tasks, crashed, hist>>

\* Wait without g.wg.Wait().
WaitWg_NoBlock(c) ==
    /\ ~crashed
    /\ pc[c] = "wait_wg"
    /\ pc' = [pc EXCEPT ![c] = "wait_close"]
    /\ UNCHANGED <<semCap, semLen, wg, listeningStarted, errClosed, finClosed,
                   listener, acc, tasks, res, crashed, clean, hist>>

\* Wait, line 163: g.wg.Wait() returns when the counter is zero.
WaitWg(c) ==
    /\ ~crashed
    /\ pc[c] = "wait_wg"
    /\ wg = 0
    /\ pc' = [pc EXCEPT ![c] = "wait_close"]
    /\ UNCHANGED <<semCap, semLen, wg, listeningStarted, errClosed, finClosed,
                   listener, acc, tasks, res, crashed, clean, hist>>

\* Wait passing a closed errorChan by, as if closing twice were allowed.
WaitClose_Idempotent(c) ==
    /\ ~crashed
    /\ pc[c] = "wait_close"
    /\ errClosed' = TRUE
    /\ pc' = [pc EXCEPT ![c] = "wait_recv"]
    /\ UNCHANGED <<semCap, semLen, wg, listeningStarted, finClosed, listener,
                   acc, tasks, res, crashed, clean, hist>>

\* Wait going on to its receive without closing errorChan.
WaitClose_NoClose(c) ==
    /\ ~crashed
    /\ pc[c] = "wait_close"
    /\ pc' = [pc EXCEPT ![c] = "wait_recv"]
    /\ UNCHANGED <<semCap, semLen, wg, listeningStarted, errClosed, finClosed,
                   listener, acc, tasks, res, crashed, clean, hist>>

\* Wait, line 164: close(g.errorChan); closing a closed channel panics in
\* the caller.
WaitClose(c) ==
    /\ ~crashed
    /\ pc[c] = "wait_close"
    /\ IF errClosed
         THEN /\ pc' = [pc EXCEPT ![c] = "panicked"]
              /\ UNCHANGED errClosed
         ELSE /\ errClosed' = TRUE
              /\ pc' = [pc EXCEPT ![c] = "wait_recv"]
    /\ UNCHANGED <<semCap, semLen, wg, listeningStarted, finClosed, listener,
                   acc, tasks, res, crashed, clean, hist>>

\* Wait, lines 166-172: errs := <-g.finishedChan, a rendezvous with the send
\* of listenToErrors (line 150); a closed finishedChan yields a nil slice.
WaitRecv(c) ==
    /\ ~crashed
    /\ pc[c] = "wait_recv"
    /\ IF finClosed
         THEN /\ Return(c, WaitResult(<<>>))
              /\ UNCHANGED listener
         ELSE /\ listener = "send"
              /\ Return(c, WaitResult(acc))
              /\ listener' = "closing"
    /\ UNCHANGED <<semCap, semLen, wg, listeningStarted, errClosed, finClosed,
                   acc, tasks, crashed, clean, hist>>

\* ---- SetLimit ----------------------------------------------------------
\* SetLimit returning on limit <= 0 without clearing g.semaphore.
LimitCap_KeepsOnUnset(limit) == IF limit <= 0 THEN semCap ELSE limit

\* The capacity SetLimit(limit) installs, lines 180-186; 0 is the nil channel.
LimitCap(limit) == IF limit <= 0 THEN 0 ELSE limit

\* SetLimit without the test of listeningStarted: a live gate is replaced.
SetLimit_NoCheck(c, limit) ==
    /\ ~crashed
    /\ pc[c] = "idle"
    /\ NoCallInProgress
    /\ semCap' = LimitCap(limit)
    /\ semLen' = 0
    /\ UNCHANGED <<wg, listeningStarted, errClosed, finClosed, listener, acc,
                   tasks, pc, res, crashed, clean, hist>>

\* SetLimit, lines 175-187.  The panic is the caller's: the caller recovers
\* and goes on, as the tests do.  A call that gets past the check writes
\* g.semaphore without synchronisation, so it is only issued while no
\* submission is in progress on another goroutine.
SetLimit(c, limit) ==
    /\ ~crashed
    /\ pc[c] = "idle"
    /\ IF listeningStarted
         THEN /\ hist' = [hist EXCEPT !.limitPanicked = TRUE]
              /\ UNCHANGED <<semCap, semLen>>
         ELSE /\ NoCallInProgress
              /\ semCap' = LimitCap(limit)
              /\ semLen' = 0
              /\ hist' = [hist EXCEPT !.unset = (semCap > 0 /\ limit <= 0)]
    /\ UNCHANGED <<wg, listeningStarted, errClosed, finClosed, listener, acc,
                   tasks, pc, res, crashed, clean>>

\* ---- specification -----------------------------------------------------
Limits == -1..MaxLimit

Next ==
    \/ \E c \in Callers : GoCall(c)
    \/ \E c \in Callers, k \in Kinds : GoSpawn(c, k)
    \/ \E c \in Callers : TryGoCall(c)
    \/ \E c \in Callers : TryGoReject(c)
    \/ \E c \in Callers : TryGoStart(c)
    \/ \E c \in Callers, k \in Kinds : TryGoSpawn(c, k)
    \/ \E t \in TaskIds : TaskAcquire(t)
    \/ \E t \in TaskIds : TaskRun(t)
    \/ \E t \in TaskIds, payload \in Payloads : TaskSend(t, payload)
    \/ \E t \in TaskIds : TaskRelease(t)
    \/ \E t \in TaskIds : TaskWgDone(t)
    \/ ListenerEnd
    \/ ListenerClose
    \/ WaitCall(Owner)
    \/ WaitWg(Owner)
    \/ WaitClose(Owner)
    \/ WaitRecv(Owner)
    \/ \E limit \in Limits : SetLimit(Owner, limit)

Spec == Init /\ [][Next]_vars

\* ---- the group used as its contract asks ---------------------------------
\* SetLimit before the first submission, no Go or TryGo call once the
\* joining Wait has been called, and one such Wait.  Every goroutine that
\* can take a step is eventually scheduled; nobody is obliged to call.
MaySubmit == pc[Owner] \notin (WaitPcs \cup {"panicked"}) /\ ~errClosed

TaskStep(t) ==
    /\ t \in TaskIds
    /\ \/ TaskAcquire(t)
       \/ TaskRun(t)
       \/ \E payload \in Payloads : TaskSend(t, payload)
       \/ TaskRelease(t)
       \/ TaskWgDone(t)

ListenerStep == ListenerEnd \/ ListenerClose

WaitStep == WaitWg(Owner) \/ WaitClose(Owner) \/ WaitRecv(Owner)

CallStep(c) ==
    \/ \E k \in Kinds : GoSpawn(c, k)
    \/ TryGoReject(c)
    \/ TryGoStart(c)
    \/ \E k \in Kinds : TryGoSpawn(c, k)

JoinNext ==
    \/ \E c \in Callers : MaySubmit /\ GoCall(c)
    \/ \E c \in Callers : MaySubmit /\ TryGoCall(c)
    \/ \E c \in Callers : CallStep(c)
    \/ \E t \in 1..MaxTasks : TaskStep(t)
    \/ ListenerStep
    \/ MaySubmit /\ NoCallInProgress /\ WaitCall(Owner)
    \/ WaitStep
    \/ \E limit \in Limits : ~listeningStarted /\ SetLimit(Owner, limit)

Fairness ==
    /\ \A t \in 1..MaxTasks : WF_vars(TaskStep(t))
    /\ \A c \in Callers : WF_vars(CallStep(c))
    /\ WF_vars(ListenerStep)
    /\ WF_vars(WaitStep)

JoinSpec == Init /\ [][JoinNext]_vars /\ Fairness

\* The same use, but for SetLimit calls made after the first submission: the
\* caller recovers from their panic and goes on, as the tests do.
LateLimitNext ==
    \/ JoinNext
    \/ \E limit \in Limits : listeningStarted /\ SetLimit(Owner, limit)

LateLimitSpec == Init /\ [][LateLimitNext]_vars /\ Fairness

\* The same use, but for Wait calls made after the joining Wait has returned.
RepeatNext ==
    \/ JoinNext
    \/ errClosed /\ NoCallInProgress /\ WaitCall(Owner)

RepeatSpec == Init /\ [][RepeatNext]_vars /\ Fairness

\* One goroutine, the owner, uses the group as its contract asks, and the
\* tasks call Go on their own group while they run, before or while the
\* owner is in Wait.
NestNext ==
    \/ MaySubmit /\ GoCall(Owner)
    \/ MaySubmit /\ TryGoCall(Owner)
    \/ CallStep(Owner)
    \/ \E t \in 1..MaxTasks : TaskStep(t)
    \/ \E t \in TaskIds : TaskGoCall(t)
    \/ \E t \in TaskIds, k \in Kinds : TaskGoSpawn(t, k)
    \/ ListenerStep
    \/ MaySubmit /\ NoCallInProgress /\ WaitCall(Owner)
    \/ WaitStep
    \/ \E limit \in Limits : ~listeningStarted /\ SetLimit(Owner, limit)

NestFairness ==
    /\ Fairness
    /\ \A t \in 1..MaxTasks :
          WF_vars(t \in TaskIds /\ \E k \in Kinds : TaskGoSpawn(t, k))

NestSpec == Init /\ [][NestNext]_vars /\ NestFairness

\* ---- vocabulary of the properties ----------------------------------------
Finished(t) == tasks[t].pc = "finished"
AllFinished == \A t \in TaskIds : Finished(t)
Failing == {t \in TaskIds : tasks[t].kind # "ok"}
Executing == {t \in TaskIds : tasks[t].pc \in {"run", "nest_add"}}
GateFull == semCap > 0 /\ semLen = semCap

\* Steps of the owner and of a caller, told by their positions.
WaitReturns == pc[Owner] = "wait_recv" /\ pc'[Owner] = "idle"
ShortCircuits == pc[Owner] = "idle" /\ pc'[Owner] = "idle" /\ res'[Owner] # res[Owner]
CallsWait == (pc[Owner] = "idle" /\ pc'[Owner] = "wait_wg") \/ ShortCircuits
Delivered == pc[Owner] = "idle" /\ listener \in {"closing", "done"}
Shared == <<semCap, semLen, wg, listeningStarted, errClosed, finClosed, listener,
            acc, tasks, res, crashed, hist>>
CallsTryGo(c) == pc[c] = "idle" /\ pc'[c] \in {"trygo_start", "trygo_false"}
GoReturns(c) == pc[c] = "go_add" /\ pc'[c] = "idle"
TryGoReturnsTrue(c) == pc[c] = "trygo_add" /\ pc'[c] = "idle"

\* ---- C1 ------------------------------------------------------------------
\* C1: when no Go/TryGo call overlaps it, Wait returns only when every
\* admitted task has finished its function and its cleanup (the goroutine is
\* past wg.Done), Go tasks that queued for a slot included.
C1_WaitBlocksUntilAllFinished ==
    [][(WaitReturns /\ clean) => (AllFinished /\ NoCallInProgress /\ wg = 0)]_vars

C1_Witness ==
    /\ Delivered /\ clean
    /\ semCap > 0
    /\ Len(tasks) = MaxTasks /\ hist.goUsed
    /\ AllFinished

\* ---- C2 ------------------------------------------------------------------
\* The result r holds one entry per failing task and nothing else: the
\* returned error itself, or the panic-marked wrapping of the payload.
OnePerFailure(r) ==
    /\ ~r.nil
    /\ Len(r.errs) = Cardinality(Failing)
    /\ \A t \in Failing : \E i \in 1..Len(r.errs) :
          /\ r.errs[i].task = t
          /\ tasks[t].kind = "err" => r.errs[i] = TaskError(t)
          /\ tasks[t].kind = "panic" => ErrPanicRecovered \in r.errs[i].is

\* C2: when K > 0 of the submitted tasks fail, by a returned error or by a
\* panic, the aggregate Wait returns holds exactly K failures, one per
\* failing task, whatever the interleaving and whoever submitted.
C2_ExactlyTheFailures ==
    [][(WaitReturns /\ clean /\ Failing # {}) => OnePerFailure(res'[Owner])]_vars

C2_Witness ==
    /\ Delivered /\ clean
    /\ \E t, u \in TaskIds : tasks[t].kind = "err" /\ tasks[u].kind = "panic"
    /\ ~res[Owner].nil
    /\ Len(res[Owner].errs) = 2

\* ---- C3 ------------------------------------------------------------------
\* C3: Wait returns nil exactly when no admitted task failed or panicked,
\* and what it returns is never an aggregate of no errors.
C3_NilIffNoFailure ==
    [][(WaitReturns \/ ShortCircuits) =>
          /\ res'[Owner].nil \/ Len(res'[Owner].errs) > 0
          /\ clean' => (res'[Owner] = Nil <=> Failing = {})]_vars

C3_Witness ==
    /\ Delivered /\ clean
    /\ Len(tasks) = MaxTasks
    /\ Failing = {}
    /\ res[Owner] = Nil

\* ---- C4 ------------------------------------------------------------------
\* C4: Wait on a group nothing was ever submitted to returns nil in the step
\* of the call: no collector is started, no channel is closed or received on.
C4_IdleWaitReturnsNil ==
    [][(CallsWait /\ ~listeningStarted /\ NoCallInProgress) =>
          /\ pc'[Owner] = "idle"
          /\ res'[Owner] = Nil
          /\ UNCHANGED <<semCap, semLen, wg, listeningStarted, errClosed,
                         finClosed, listener, acc, tasks, crashed, hist>>]_vars

C4_Witness ==
    /\ res[Owner] = Nil
    /\ pc[Owner] = "idle"
    /\ ~listeningStarted /\ listener = "none"
    /\ ~errClosed /\ ~finClosed

\* ---- C5 ------------------------------------------------------------------
\* C5: with a limit L > 0, never more than L task functions execute at the
\* same time, however the tasks were submitted.
C5_AtMostLimitExecuting == semCap > 0 => Cardinality(Executing) <= semCap

C5_Witness ==
    /\ semCap > 0
    /\ Cardinality(Executing) = semCap
    /\ \E t \in TaskIds : tasks[t].pc = "acquire"

\* ---- C6 ------------------------------------------------------------------
\* C6: with a limit L > 0, every submitted task eventually completes and the
\* Wait that follows eventually returns, also when every task fails and
\* reports while it holds its slot.
C6_AllCompleteAndWaitReturns ==
    /\ \A t \in 1..MaxTasks :
          (semCap > 0 /\ t \in TaskIds) ~> (t \in TaskIds /\ Finished(t))
    /\ (semCap > 0 /\ pc[Owner] = "wait_wg") ~> Delivered

C6_Witness ==
    /\ Delivered
    /\ semCap > 0 /\ Len(tasks) > semCap
    /\ hist.goUsed
    /\ AllFinished
    /\ Len(acc) = Len(tasks)

\* ---- C7 ------------------------------------------------------------------
\* C7 as stated: at a full gate the call to Go blocks, so Go does not return
\* while every slot is held.
C7_GoBlocksAtCapacity ==
    [][\A c \in Callers : GoReturns(c) => ~GateFull]_vars

\* C7, amended: Go never waits for a slot and never reports a failure: it
\* can always go on to its return, which spawns the goroutine without a slot
\* taken.  It is the goroutine that waits: it starts the function only by
\* taking a free slot.
C7_GoReturnsAndTaskQueues ==
    /\ [](\A c \in Callers :
            (pc[c] = "go_add" /\ ~crashed) => ENABLED GoSpawn(c, "ok"))
    /\ [][/\ \A c \in Callers : GoReturns(c) =>
                /\ Len(tasks') = Len(tasks) + 1
                /\ tasks'[Len(tasks')].pc = "acquire"
                /\ semLen' = semLen
          /\ \A t \in TaskIds : (tasks[t].pc = "acquire" /\ tasks'[t].pc # "acquire") =>
                /\ tasks'[t].pc = "run"
                /\ semCap = 0 \/ (semLen < semCap /\ semLen' = semLen + 1)]_vars

C7_Witness ==
    /\ GateFull
    /\ NoCallInProgress
    /\ \E t \in TaskIds : tasks[t].pc = "acquire"
    /\ \A t \in TaskIds : tasks[t].pc \in {"acquire", "run"}

\* ---- C8 ------------------------------------------------------------------
\* C8: with a limit L, while only TryGo has been used and no task has ended
\* its function, a TryGo call is admitted exactly when fewer than L were
\* admitted before it: the first L calls return true, the later ones false.
C8_FirstLAdmitted ==
    [][\A c \in Callers :
          (/\ CallsTryGo(c)
           /\ semCap > 0 /\ ~hist.goUsed
           /\ \A t \in TaskIds : tasks[t].pc = "run")
          => (pc'[c] = "trygo_start" <=> Submitted < semCap)]_vars

C8_Witness ==
    /\ semCap > 0 /\ ~hist.goUsed
    /\ Len(tasks) = semCap
    /\ \A t \in TaskIds : tasks[t].pc = "run"
    /\ pc[Owner] = "trygo_false"

\* ---- C9 ------------------------------------------------------------------
\* C9: a TryGo call at a full gate takes the default case and returns false,
\* and neither step changes anything of the group: no task, no count, no
\* slot, no collector.
C9_RejectionChangesNothing ==
    [][\A c \in Callers :
          /\ (CallsTryGo(c) /\ GateFull) =>
                (pc'[c] = "trygo_false" /\ UNCHANGED Shared)
          /\ (pc[c] = "trygo_false" /\ pc'[c] # "trygo_false") =>
                (pc'[c] = "idle" /\ UNCHANGED Shared)]_vars

C9_Witness ==
    /\ \E c \in Callers : pc[c] = "trygo_false"
    /\ GateFull
    /\ ~listeningStarted /\ wg = 0 /\ tasks = <<>>

\* ---- C10 -----------------------------------------------------------------
\* C10: TryGo is admitted exactly when there is no limit or a slot is free,
\* and an admitted call returns by spawning its task; without a limit it is
\* never rejected.
C10_TrueIffScheduled ==
    [][\A c \in Callers :
          /\ CallsTryGo(c) => (pc'[c] = "trygo_start" <=> ~GateFull)
          /\ TryGoReturnsTrue(c) =>
                /\ Len(tasks') = Len(tasks) + 1
                /\ tasks'[Len(tasks')].pc = "run"
                /\ wg' = wg + 1]_vars

C10_Witness ==
    /\ semCap = 0 /\ ~hist.goUsed
    /\ Len(tasks) = MaxTasks
    /\ Cardinality(Executing) = MaxTasks

\* ---- C11 -----------------------------------------------------------------
\* The fields of the group, without the histories and the callers' positions.
Group == <<semCap, semLen, wg, listeningStarted, errClosed, finClosed,
           listener, acc, tasks, res, crashed>>

\* C11: once a task has been submitted, every SetLimit call panics and
\* changes nothing of the group, the gate included; the tasks submitted
\* still finish, and the Wait that follows returns, with exactly their
\* failures.
C11_LateSetLimitPanics ==
    /\ [](\A limit \in Limits :
            (Len(tasks) > 0 /\ pc[Owner] = "idle" /\ ~crashed) =>
                /\ ENABLED SetLimit(Owner, limit)
                /\ ~ENABLED (/\ SetLimit(Owner, limit)
                             /\ ~(hist'.limitPanicked /\ UNCHANGED Group)))
    /\ [][(~hist.limitPanicked /\ hist'.limitPanicked) =>
              (listeningStarted /\ UNCHANGED Group /\ UNCHANGED pc)]_vars
    /\ [][(WaitReturns /\ clean /\ hist.limitPanicked) =>
              /\ AllFinished
              /\ IF Failing = {} THEN res'[Owner] = Nil
                                 ELSE OnePerFailure(res'[Owner])]_vars
    /\ hist.limitPanicked ~> (AllFinished /\ pc[Owner] \notin WaitPcs)

C11_Witness ==
    /\ hist.limitPanicked
    /\ Delivered /\ clean
    /\ semCap > 0 /\ semLen = 0
    /\ Len(tasks) = MaxTasks /\ AllFinished
    /\ Failing # {} /\ ~res[Owner].nil

\* ---- C12 -----------------------------------------------------------------
\* The owner is between calls and nothing has been submitted or is being
\* submitted: SetLimit gets past its check.
BeforeFirstSubmission ==
    ~listeningStarted /\ NoCallInProgress /\ pc[Owner] = "idle" /\ ~crashed

\* C12: before the first submission SetLimit can be called again and again,
\* and each call installs its own argument whatever was installed before:
\* capacity n for n > 0, no gate for n <= 0.  Nothing else changes the gate.
\* Without a gate no task waits for a slot and no TryGo is rejected.
C12_LastSetLimitDecides ==
    /\ [](BeforeFirstSubmission =>
             \A limit \in Limits : ENABLED SetLimit(Owner, limit))
    /\ [][\A limit \in Limits :
             (BeforeFirstSubmission /\ SetLimit(Owner, limit)) =>
                 /\ semCap' = (IF limit > 0 THEN limit ELSE 0)
                 /\ semLen' = 0
                 /\ UNCHANGED <<wg, listeningStarted, errClosed, finClosed,
                                listener, acc, tasks, pc>>]_vars
    /\ [][semCap' # semCap =>
             (BeforeFirstSubmission /\ \E limit \in Limits : SetLimit(Owner, limit))]_vars
    /\ [](semCap = 0 =>
             /\ semLen = 0
             /\ \A c \in Callers : pc[c] # "trygo_false"
             /\ \A t \in TaskIds :
                   (tasks[t].pc = "acquire" /\ ~crashed) => ENABLED TaskAcquire(t))

\* SetLimit(n > 0), then SetLimit(n <= 0), then MaxTasks submissions, some
\* by Go: all their functions execute at the same time.
C12_Witness ==
    /\ hist.unset /\ hist.goUsed
    /\ semCap = 0
    /\ Len(tasks) = MaxTasks
    /\ Cardinality(Executing) = MaxTasks

\* ---- C13 -----------------------------------------------------------------
\* The entries the listener holds that came from task t.
EntriesOf(t) == {i \in 1..Len(acc) : acc[i].task = t}

\* The goroutine of t is past its send, if it had one to make.
Reported(t) == tasks[t].pc \in {"release", "wgdone", "finished"}

\* C13: a panicking task reports once, from done: its entry is marked with
\* ErrPanicRecovered, carries the payload and the stack, and matches the
\* payload when that is an error.  A returned error is reported as it is,
\* unmarked.  After the report the goroutine goes on through done: it gives
\* its slot back and decrements the counter, and nothing crashes.
C13_PanicBecomesOneEntry ==
    /\ [][\A t \in TaskIds, payload \in Payloads :
             (TaskSend(t, payload) /\ tasks[t].kind = "panic") =>
                 LET e == acc'[Len(acc')] IN
                     /\ Len(acc') = Len(acc) + 1
                     /\ e.task = t /\ e.stack
                     /\ ErrPanicRecovered \in e.is
                     /\ (payload = "error") <=> (<<"task", t>> \in e.is)
                     /\ tasks'[t].pc = "release" /\ ~crashed']_vars
    /\ [](\A t \in TaskIds :
             /\ Cardinality(EntriesOf(t)) =
                   IF tasks[t].kind # "ok" /\ Reported(t) THEN 1 ELSE 0
             /\ \A i \in EntriesOf(t) :
                   /\ tasks[t].kind = "err" =>
                         (acc[i] = TaskError(t) /\ ErrPanicRecovered \notin acc[i].is)
                   /\ tasks[t].kind = "panic" => ErrPanicRecovered \in acc[i].is)
    /\ []((AllFinished /\ NoCallInProgress) => (semLen = 0 /\ wg = 0 /\ ~crashed))
    /\ []<>(\A t \in TaskIds : tasks[t].kind = "panic" => Finished(t))

C13_Witness ==
    /\ Delivered
    /\ semCap > 0 /\ semLen = 0 /\ wg = 0
    /\ AllFinished
    /\ \E t, u \in TaskIds :
          /\ tasks[t].kind = "panic" /\ tasks[u].kind = "err"
          /\ res[Owner].errs = <<PanicError(t, "error"), TaskError(u)>>

\* ---- C14 -----------------------------------------------------------------
\* How far the goroutine of a task has come.
Rank(p) ==
    CASE p = "acquire" -> 0
      [] p \in {"run", "nest_add"} -> 1
      [] p \in {"send", "psend"} -> 2
      [] p = "release" -> 3
      [] p = "wgdone" -> 4
      [] OTHER -> 5

\* Some task has failed and its failure is with the listener.
SiblingFailed(t) == \E u \in TaskIds \ {t} : tasks[u].kind # "ok" /\ Reported(u)

\* C14: no cancellation.  A spawned goroutine is never removed and never
\* goes back; it starts its function whenever it has its slot, whatever its
\* siblings did, the function runs to its own outcome, once, and every task
\* finishes.
C14_NoCancellation ==
    /\ [](\A t \in TaskIds : ~crashed =>
             /\ (tasks[t].pc = "acquire" /\ SlotFree) => ENABLED TaskAcquire(t)
             /\ tasks[t].pc = "run" => ENABLED TaskRun(t))
    /\ [][/\ Len(tasks') >= Len(tasks)
          /\ \A t \in TaskIds :
                /\ tasks'[t].kind = tasks[t].kind
                /\ Rank(tasks'[t].pc) >= Rank(tasks[t].pc)
                /\ (tasks[t].pc = "run" /\ tasks'[t].pc # "run") =>
                      tasks'[t].pc = AfterFnc(tasks[t].kind)]_vars
    /\ []<>AllFinished

\* A task is executing its function after a sibling panicked and finished.
C14_Witness ==
    /\ hist.goUsed
    /\ \E t, u \in TaskIds :
          /\ tasks[t].kind = "panic" /\ Finished(t)
          /\ tasks[u].kind = "err" /\ tasks[u].pc = "run"
          /\ SiblingFailed(u)

\* ---- C15 -----------------------------------------------------------------
\* Some call is past its startListening, or has spawned its goroutine.
SomeSubmission ==
    \/ Len(tasks) > 0
    \/ \E c \in Callers : pc[c] \in {"go_add", "trygo_add"}

\* The step in which caller c runs startListening.
StartsListening(c) ==
    \/ pc[c] = "idle" /\ pc'[c] = "go_add"
    \/ pc[c] = "trygo_start" /\ pc'[c] = "trygo_add"

\* C15: no listener exists after New and until the first startListening;
\* the first Go or admitted TryGo starts it, and no later or concurrent one
\* starts another: one listener per group at most, started in a
\* startListening and nowhere else.
C15_OneCollector ==
    /\ [](/\ hist.collectors <= 1
          /\ hist.collectors = 1 <=> listeningStarted
          /\ hist.collectors = 0 <=> listener = "none"
          /\ SomeSubmission => hist.collectors = 1)
    /\ [][hist'.collectors # hist.collectors =>
             /\ hist.collectors = 0 /\ hist'.collectors = 1
             /\ listener' = "recv"
             /\ \E c \in Callers : StartsListening(c)]_vars

\* Both callers are inside Go at once, past startListening.
C15_Witness ==
    /\ \A c \in Callers : pc[c] = "go_add"
    /\ tasks = <<>>
    /\ hist.collectors = 1 /\ listener = "recv"

\* ---- C16 -----------------------------------------------------------------
\* The step in which the listener hands its slice to the receiver.
Delivers == listener = "send" /\ listener' = "closing"

\* C16: the chain of the termination.  Wait gets to its close only from
\* wg.Wait, which returns on a zero counter (still zero at the close when no
\* submission overlaps); errorChan is closed by that close only, and stays
\* closed; the listener leaves its loop and delivers only once errorChan is
\* closed, to a Wait that is past the close; and Wait returns from the
\* receive of that delivery.
C16_TerminationChain ==
    /\ [][/\ (pc[Owner] # "wait_close" /\ pc'[Owner] = "wait_close") =>
                (pc[Owner] = "wait_wg" /\ wg = 0)
          /\ (~errClosed /\ errClosed') =>
                /\ pc[Owner] = "wait_close" /\ pc'[Owner] = "wait_recv"
                /\ clean => wg = 0
          /\ errClosed => errClosed'
          /\ (listener = "recv" /\ listener' # "recv") =>
                (errClosed /\ listener' = "send")
          /\ Delivers => (errClosed /\ pc[Owner] = "wait_recv" /\ WaitReturns)
          /\ WaitReturns => Delivers]_vars
    /\ [](/\ pc[Owner] = "wait_recv" => errClosed
          /\ listener \in {"send", "closing", "done"} => errClosed
          /\ finClosed => listener = "done")

C16_Witness ==
    /\ Delivered /\ clean
    /\ wg = 0 /\ errClosed /\ finClosed /\ listener = "done"
    /\ Len(tasks) = MaxTasks /\ AllFinished
    /\ Len(acc) = 1

\* ---- C17 -----------------------------------------------------------------
\* The goroutines that have not called wg.Done yet.
Counted == {t \in TaskIds : ~Finished(t)}

\* The goroutines that are at a send on errorChan or can still come to one.
MaySend == {t \in TaskIds : Rank(tasks[t].pc) <= 2}

\* The step of close(g.errorChan).
Closes == ~errClosed /\ errClosed'

\* C17: with every submission returned before Wait is called, a goroutine
\* that can still send is counted by the WaitGroup, since it sends before
\* its wg.Done; so when Wait closes errorChan, and ever after, no goroutine
\* is at a send or will come to one, and no send panics.
C17_NoSendOnClosed ==
    /\ [](/\ wg = Cardinality(Counted)
          /\ MaySend \subseteq Counted
          /\ errClosed => (MaySend = {} /\ AllFinished)
          /\ ~crashed)
    /\ [][Closes => (MaySend = {} /\ NoCallInProgress /\ tasks' = tasks)]_vars

\* Wait has just closed errorChan: a returned error and a recovered panic
\* were sent before.
C17_Witness ==
    /\ pc[Owner] = "wait_recv" /\ errClosed /\ listener = "recv"
    /\ \E t, u \in TaskIds :
          /\ tasks[t].kind = "err" /\ tasks[u].kind = "panic"
          /\ EntriesOf(t) # {} /\ EntriesOf(u) # {}
    /\ ~crashed

\* ---- C18 -----------------------------------------------------------------
\* The step in which the send of task t meets the receive of the listener.
Sends(t) == tasks[t].pc \in {"send", "psend"} /\ tasks'[t].pc = "release"

\* C18: the listener appends every error it receives, that of the sender,
\* after those it holds, and its slice changes in no other step; what it
\* delivers, and Wait returns, is that slice: the errors sent before the
\* close, in the order of their receipt.
C18_ReceiveOrderKept ==
    [][/\ \A t \in TaskIds : Sends(t) =>
             /\ listener = "recv" /\ ~errClosed
             /\ Len(acc') = Len(acc) + 1
             /\ SubSeq(acc', 1, Len(acc)) = acc
             /\ acc'[Len(acc')].task = t
       /\ acc' # acc => \E t \in TaskIds : Sends(t)
       /\ Delivers => /\ errClosed /\ acc' = acc
                      /\ res'[Owner] = IF acc = <<>> THEN Nil
                                       ELSE [nil |-> FALSE, errs |-> acc]]_vars

\* Delivered in the order received, which is not the order of submission.
C18_Witness ==
    /\ Delivered
    /\ Len(acc) = 2 /\ acc[1].task > acc[2].task
    /\ ~res[Owner].nil /\ res[Owner].errs = acc

\* ---- C19 -----------------------------------------------------------------
\* How far the listener has come.
ListenerRank(p) ==
    CASE p = "none" -> 0
      [] p = "recv" -> 1
      [] p = "send" -> 2
      [] p = "closing" -> 3
      [] OTHER -> 4

\* C19: the listener never goes back: it is at its delivery or past it only
\* once errorChan is closed, it delivers in one step and never again, it
\* receives nothing once it has left its loop, and once it has ended it
\* stays so, finishedChan closed.  A Wait that waits brings it to its end.
C19_DeliversOnceThenEnds ==
    /\ [][/\ ListenerRank(listener') >= ListenerRank(listener)
          /\ Delivers => (errClosed /\ ListenerRank(listener) = 2)
          /\ ListenerRank(listener) >= 2 => acc' = acc
          /\ finClosed => finClosed']_vars
    /\ [](/\ ListenerRank(listener) >= 2 => errClosed
          /\ finClosed <=> listener = "done")
    /\ (pc[Owner] = "wait_wg") ~> (listener = "done" /\ finClosed)

C19_Witness ==
    /\ listener = "done" /\ finClosed
    /\ pc[Owner] = "idle" /\ ~res[Owner].nil
    /\ Len(tasks) = MaxTasks /\ Len(acc) = MaxTasks

\* ---- C20 -----------------------------------------------------------------
\* The goroutines that are at a send on errorChan.
Sending == {t \in TaskIds : tasks[t].pc \in {"send", "psend"}}

\* C20: whenever a goroutine is at its send, from its body or from done,
\* the listener is in its loop on an open errorChan and the send can take
\* place at once, whether Wait has been called or not and however many
\* goroutines are sending; so every sender is received and goes on.
C20_EverySendReceived ==
    /\ [](\A t \in Sending :
             /\ listener = "recv" /\ ~errClosed
             /\ \E payload \in Payloads : ENABLED TaskSend(t, payload))
    /\ []<>(Sending = {})

\* One error has been received and another goroutine is at its send, with
\* no Wait called so far.
C20_Witness ==
    /\ res[Owner] = NoResult /\ pc[Owner] \notin WaitPcs
    /\ Len(acc) = 1
    /\ \E t \in Sending : tasks[t].pc = "psend"
    /\ Len(tasks) = MaxTasks

\* ---- C21 -----------------------------------------------------------------
\* The goroutines that hold a slot: past the send of their token (or spawned
\* by a TryGo, which sent it) and not past the receive in done.
Holding == {t \in TaskIds : Rank(tasks[t].pc) \in 1..3}

\* The TryGo calls that have taken a slot for a goroutine not spawned yet.
Admitting == {c \in Callers : pc[c] \in {"trygo_start", "trygo_add"}}

\* C21: with a limit, the tokens in the semaphore are those of the tasks
\* that took a slot and have not given it back, one each, never more than
\* the limit.  A task takes its slot in one step, before its function, and
\* gives it back in one step, on its way to wg.Done, whatever its function
\* did; no other step moves a token.
C21_SlotAccounting ==
    /\ [](/\ semCap > 0 =>
                semLen = Cardinality(Holding) + Cardinality(Admitting)
          /\ semCap = 0 => semLen = 0
          /\ semLen >= 0 /\ semLen <= semCap)
    /\ [][/\ \A t \in TaskIds :
                /\ (tasks[t].pc = "acquire" /\ tasks'[t].pc # "acquire") =>
                      (tasks'[t].pc = "run" /\ (semCap > 0 => semLen' = semLen + 1))
                /\ (tasks[t].pc = "release" /\ tasks'[t].pc # "release") =>
                      (tasks'[t].pc = "wgdone" /\ (semCap > 0 => semLen' = semLen - 1))
                /\ (tasks[t].pc # "wgdone" /\ tasks'[t].pc = "wgdone") =>
                      tasks[t].pc = "release"
          /\ \A c \in Callers :
                (pc[c] = "idle" /\ pc'[c] = "trygo_start" /\ semCap > 0) =>
                      semLen' = semLen + 1
          /\ (semLen' # semLen /\ semCap' = semCap) =>
                \/ \E t \in TaskIds : tasks'[t].pc # tasks[t].pc
                \/ \E c \in Callers : pc'[c] = "trygo_start" /\ pc[c] = "idle"]_vars

\* A task that panicked has given its slot back and another holds it.
C21_Witness ==
    /\ semCap > 0 /\ semLen = semCap
    /\ \E t, u \in TaskIds :
          /\ tasks[t].kind = "panic" /\ tasks[t].pc = "wgdone"
          /\ tasks[u].pc = "run"
    /\ hist.goUsed

\* ---- C22 -----------------------------------------------------------------
\* The owner's Wait is past g.wg.Wait() and has not returned.
PastWgWait == pc[Owner] \in {"wait_close", "wait_recv"}

\* C22: a goroutine that holds a slot has not called wg.Done, so the counter
\* counts every holder; when no submission overlaps it, Wait gets past
\* wg.Wait, and returns, with no slot held.
C22_NoSlotHeldPastWait ==
    /\ [](/\ Holding \subseteq Counted
          /\ wg >= Cardinality(Holding)
          /\ (clean /\ PastWgWait) => (semLen = 0 /\ Holding = {} /\ Admitting = {}))
    /\ [][/\ (pc[Owner] = "wait_wg" /\ pc'[Owner] = "wait_close" /\ clean') =>
                semLen' = 0
          /\ (WaitReturns /\ clean) => semLen' = 0
          /\ \A t \in TaskIds : wg' < wg =>
                (tasks'[t].pc # tasks[t].pc => tasks[t].pc = "wgdone")]_vars

\* Wait has just got past wg.Wait on a group with a limit whose tasks, all
\* finished, each held a slot.
C22_Witness ==
    /\ clean /\ pc[Owner] = "wait_close"
    /\ semCap > 0 /\ semLen = 0
    /\ Len(tasks) = MaxTasks /\ AllFinished
    /\ hist.goUsed

\* ---- C23 -----------------------------------------------------------------
\* The step in which caller c returns from Go, or from TryGo with true.
Spawns(c) == pc[c] \in {"go_add", "trygo_add"} /\ pc'[c] = "idle"

\* The step in which the goroutine of task t ends.
Ends(t) == ~Finished(t) /\ tasks'[t].pc = "finished"

\* C23: the counter is the number of spawned goroutines that have not ended:
\* never negative, zero exactly when all have ended.  It goes up by one in
\* the step in which a call spawns its goroutine and returns, down by one in
\* the step in which a goroutine ends, which it does from wg.Done only,
\* whatever its function did, and it changes in no other step.
C23_CounterAccounting ==
    /\ [](/\ wg = Cardinality(Counted)
          /\ wg >= 0
          /\ wg = 0 <=> AllFinished)
    /\ [][/\ \A c \in Callers : Spawns(c) =>
                /\ wg' = wg + 1
                /\ Len(tasks') = Len(tasks) + 1
                /\ tasks'[Len(tasks')].pc # "finished"
          /\ \A t \in TaskIds : Ends(t) =>
                (tasks[t].pc = "wgdone" /\ wg' = wg - 1)
          /\ wg' # wg =>
                \/ \E c \in Callers : Spawns(c)
                \/ \E t \in TaskIds : Ends(t)]_vars

\* A task that panicked has ended and one that returned an error has not.
C23_Witness ==
    /\ wg = 1
    /\ \E t, u \in TaskIds :
          /\ tasks[t].kind = "panic" /\ Finished(t)
          /\ tasks[u].kind = "err" /\ tasks[u].pc = "wgdone"

\* ---- C24 -----------------------------------------------------------------
\* The slots taken: by goroutines, and by TryGo calls for theirs to come.
Booked == Cardinality(Holding) + Cardinality(Admitting)

\* C24: the select of TryGo tests for a free slot and takes it in one step:
\* a call is admitted exactly when the slots booked, those of admitted calls
\* still in progress on other goroutines included, are fewer than the limit,
\* and it books its own in that step.  So, however the calls interleave, no
\* more slots are booked than the limit has.
C24_NoDoubleBooking ==
    /\ [](semCap > 0 => Booked <= semCap)
    /\ [][\A c \in Callers : (CallsTryGo(c) /\ semCap > 0) =>
             /\ pc'[c] = "trygo_start" <=> Booked < semCap
             /\ pc'[c] = "trygo_start" => (Booked' = Booked + 1 /\ semLen' = semLen + 1)
             /\ pc'[c] = "trygo_false" => (Booked' = Booked /\ semLen' = semLen)]_vars

\* Two concurrent TryGo calls on the last free slot: one has it, not yet
\* past its wg.Add, the other was refused.
C24_Witness ==
    /\ semCap > 0 /\ Booked = semCap
    /\ \E c, d \in Callers : pc[c] \in {"trygo_start", "trygo_add"} /\ pc[d] = "trygo_false"
    /\ wg = Cardinality(Holding)

\* ---- C25 -----------------------------------------------------------------
\* A Wait of the owner returned nil while nothing had been submitted, and
\* nothing has been since.
WaitedIdle == res[Owner] = Nil /\ ~listeningStarted

\* C25: while nothing has been started on the group, Wait can be called any
\* number of times and each call can only return nil at once, changing no
\* field of the group: flag unset, channels open, counter zero.  After it
\* SetLimit is still accepted, and the Wait that follows the later
\* submissions joins them and returns their failures as on a new group.
C25_IdleWaitIsNoOp ==
    /\ []((~listeningStarted /\ pc[Owner] = "idle" /\ ~crashed) =>
             /\ ENABLED WaitCall(Owner)
             /\ ~ENABLED (/\ WaitCall(Owner)
                          /\ ~(/\ res'[Owner] = Nil /\ pc' = pc
                               /\ UNCHANGED <<semCap, semLen, wg, listeningStarted,
                                              errClosed, finClosed, listener, acc,
                                              tasks, crashed, hist>>)))
    /\ [](WaitedIdle =>
             /\ ~errClosed /\ ~finClosed /\ wg = 0 /\ listener = "none"
             /\ tasks = <<>> /\ acc = <<>>
             /\ (BeforeFirstSubmission =>
                    \A limit \in Limits :
                        ENABLED (/\ SetLimit(Owner, limit)
                                 /\ semCap' = (IF limit > 0 THEN limit ELSE 0)
                                 /\ ~hist'.limitPanicked)))
    /\ [][(WaitReturns /\ clean /\ res[Owner] = Nil) =>
             /\ AllFinished
             /\ IF Failing = {} THEN res'[Owner] = Nil
                                ELSE OnePerFailure(res'[Owner])]_vars

\* After an idle Wait a limit was set and tasks were submitted; the Wait
\* that joins them is about to receive their failures.
C25_Witness ==
    /\ res[Owner] = Nil
    /\ pc[Owner] = "wait_recv" /\ listener = "send" /\ clean
    /\ semCap > 0
    /\ Len(tasks) = MaxTasks /\ Len(acc) = MaxTasks

\* ---- C26 -----------------------------------------------------------------
\* The owner's Wait returns, from anywhere past its short circuit.
ReturnsFromWait == pc[Owner] \in WaitPcs /\ pc'[Owner] = "idle"

\* C26: once something was submitted a Wait call never takes the short
\* circuit; once the listener has delivered, no Wait returns any more: a
\* Wait called then gets through wg.Wait to the close of the closed
\* errorChan, which panics in the caller, leaving the first result as the
\* only one.
C26_SecondWaitPanics ==
    /\ []((listeningStarted /\ pc[Owner] = "idle" /\ ~crashed) =>
             /\ ENABLED WaitCall(Owner)
             /\ ~ENABLED (WaitCall(Owner) /\ pc'[Owner] # "wait_wg"))
    /\ [][/\ listener \in {"closing", "done"} => ~ReturnsFromWait
          /\ (pc[Owner] = "wait_close" /\ pc'[Owner] # "wait_close" /\ errClosed) =>
                (pc'[Owner] = "panicked" /\ UNCHANGED res)
          /\ pc[Owner] = "panicked" => pc'[Owner] = "panicked"]_vars
    /\ (errClosed /\ pc[Owner] = "wait_wg") ~> (pc[Owner] = "panicked")

\* The first Wait returned the failures and the second one panicked.
C26_Witness ==
    /\ pc[Owner] = "panicked"
    /\ listener = "done"
    /\ ~res[Owner].nil /\ Len(res[Owner].errs) = Len(tasks)
    /\ AllFinished

\* ---- C27 -----------------------------------------------------------------
\* C27: the flag, once set, stays set, and the one listener, once past its
\* loop, never receives again, whatever is submitted later.  So, with
\* errorChan closed by Wait, the slice of the listener and the result of
\* Wait no longer change by a report: a goroutine that comes to a send then
\* can only panic on the closed channel, from done unrecovered, and the
\* process dies.
C27_NoRestartAfterWait ==
    /\ [][/\ listeningStarted => listeningStarted'
          /\ hist'.collectors <= 1
          /\ ListenerRank(listener) >= 2 => ListenerRank(listener') >= 2
          /\ errClosed => acc' = acc
          /\ crashed' # crashed =>
                (errClosed /\ \E t \in Sending : tasks' = tasks /\ res' = res)
          /\ crashed => crashed']_vars
    /\ [](\A t \in Sending : (errClosed /\ ~crashed) =>
             \A payload \in Payloads :
                 ~ENABLED (TaskSend(t, payload) /\ ~crashed'))
    /\ [](\A t \in Sending : (errClosed /\ ~crashed) =>
             \E payload \in Payloads : ENABLED TaskSend(t, payload))

\* Wait returned, then a task was submitted that failed: its report met the
\* closed channel, and no listener was started for it.
C27_Witness ==
    /\ crashed
    /\ listener = "done" /\ hist.collectors = 1
    /\ pc[Owner] = "idle" /\ res[Owner] # NoResult
    /\ \E t \in Sending : EntriesOf(t) = {} /\ tasks[t].kind = "panic"

\* ---- C28 -----------------------------------------------------------------
\* The tasks that were submitted by a task.
Nested == {u \in TaskIds : "parent" \in DOMAIN tasks[u]}

\* The step in which fnc of task t returns from its call of Go.
NestSpawns(t) == tasks[t].pc = "nest_add" /\ tasks'[t].pc = "run"

\* C28: a task can call Go on its own group, also while the owner is in
\* wg.Wait.  The call never blocks, whatever the limit, and its wg.Add comes
\* while the calling task is itself counted, so the counter is not zero in
\* between: Wait gets past wg.Wait only when the nested tasks have finished
\* too, no report meets a closed channel, and the result holds the failures
\* of nested tasks like the others.  The nested goroutine takes its slot
\* once its parent, or whoever holds it, has given it back: every
\* submitted task finishes and a Wait that was called returns, again and
\* again whatever is submitted next.
C28_NestedSubmissionSafe ==
    /\ [](/\ ~crashed
          /\ wg = Cardinality(Counted)
          /\ \A t \in TaskIds : tasks[t].pc = "nest_add" =>
                ENABLED TaskGoSpawn(t, "ok")
          /\ PastWgWait => AllFinished)
    /\ [][/\ \A t \in TaskIds : NestSpawns(t) =>
                /\ wg >= 1 /\ wg' = wg + 1
                /\ Len(tasks') = Len(tasks) + 1
                /\ tasks'[Len(tasks')].pc = "acquire"
                /\ tasks'[Len(tasks')].parent = t
          /\ WaitReturns =>
                /\ AllFinished
                /\ IF Failing = {} THEN res'[Owner] = Nil
                                   ELSE OnePerFailure(res'[Owner])]_vars
    /\ []<>(AllFinished /\ pc[Owner] \notin WaitPcs)

\* The owner is in wg.Wait and the one task it submitted holds the only
\* slot; that task has called Go and is back in its function: the nested
\* task, one that will fail, is counted and waits for the slot.
C28_Witness ==
    /\ pc[Owner] = "wait_wg"
    /\ semCap = 1 /\ semLen = 1
    /\ wg = 2
    /\ \E u \in Nested :
          /\ tasks[u].kind = "err"
          /\ tasks[u].pc = "acquire"
          /\ tasks[tasks[u].parent].pc = "run"
          /\ "parent" \notin DOMAIN tasks[tasks[u].parent]
====
